---- MODULE Spec2Model ----
(***************************************************************************)
(* GridPlotter (src/io/gridplotter.hpp): the seven static rendering entry  *)
(* points that turn a 2D nDGridMap into a CImg raster and hand it to       *)
(* CImg::display.                                                          *)
(*                                                                         *)
(* Doubles.  Every double of the model is a dyadic number and is held as   *)
(* the integer count of its halves (1.0 is 2, 127.5 is 255, 255.0 is 510): *)
(* the sample values are chosen so that value/max_val*255 is computed      *)
(* exactly by IEEE arithmetic, and the model computes the same quotient    *)
(* and product.  Infinity and NaN are the two non-finite doubles.          *)
(***************************************************************************)
EXTENDS Integers, Sequences, FiniteSets, TLC

VARIABLES
    grid,       \* the nDGridMap passed by reference: [w, h, cells, skipInf]
    paths,      \* the caller's Paths2D: a sequence of Path2D
    name,       \* the caller's title prefix (std::string name)
    op,         \* the entry point of the last call, "none" before any call
    args,       \* the paths handed to the last call (<<p>> for a single path)
    base,       \* the buffer of the last call after the fill loop
    drawn,      \* the buffer after the path loops, before img.map
    img,        \* the buffer as the call left it (after img.map where used)
    title,      \* name after the call's `name += ...`
    displayed,  \* the last call reached img.display
    crashed     \* the process died in a write outside the buffer

vars == <<grid, paths, name, op, args, base, drawn, img, title, displayed, crashed>>

-----------------------------------------------------------------------------
(* Bounds of the model *)

MaxW == 2
MaxH == 2
MaxVertices == 1

-----------------------------------------------------------------------------
(* Doubles *)

\* The finite doubles are the counts 0, 1, 2, ...; the two non-finite ones
\* are held as the codes below.
Infinity == -1
NaN == -2
Fin(h) == h

IsFinite(a) == a >= 0
IsNaN(a) == a = NaN

\* a / b  (IEEE 754; the finite quotients of the model are exact)
DDiv(a, b) ==
    IF IsNaN(a) \/ IsNaN(b) THEN NaN
    ELSE IF a = Infinity THEN (IF b = Infinity THEN NaN ELSE Infinity)
    ELSE IF b = Infinity THEN Fin(0)
    ELSE IF b = 0 THEN (IF a = 0 THEN NaN ELSE Infinity)
    ELSE Fin((2 * a) \div b)

\* a * n for an integer literal n > 0
DTimes(a, n) == IF IsFinite(a) THEN Fin(a * n) ELSE a

\* a <= b, false when either side is NaN
DLe(a, b) ==
    /\ ~IsNaN(a) /\ ~IsNaN(b)
    /\ \/ b = Infinity
       \/ IsFinite(a) /\ IsFinite(b) /\ a <= b

\* a == b, false when either side is NaN
DEq(a, b) == ~IsNaN(a) /\ ~IsNaN(b) /\ a = b

\* static_cast<unsigned int>(d) of a finite double d >= 0: truncation
Trunc(a) == a \div 2

White == 255

-----------------------------------------------------------------------------
(* The grid (nDGridMap<T, 2>) as the plotter reads it *)

getDimSizes(g) == <<g.w, g.h>>
CellAt(g, idx) == g.cells[idx]
isOccupied(c) == c.occupied
getOccupancy(c) == c.occupancy
getValue(c) == c.value

RECURSIVE MaxOver(_, _, _)
MaxOver(g, idx, acc) ==
    IF idx = g.w * g.h THEN acc
    ELSE LET v == getValue(CellAt(g, idx))
         IN  MaxOver(g, idx + 1,
                     IF (g.skipInf /\ ~IsFinite(v)) \/ DLe(v, acc) THEN acc ELSE v)

\* the grid-wide maximum value; g.skipInf tells whether unvisited (infinite)
\* cells are left out of it
getMaxValue(g) == MaxOver(g, 0, Fin(0))

-----------------------------------------------------------------------------
(* CImg<T> img(w, h, 1, spectrum, 0): planar buffer, channel after channel *)

Size(im) == im.width * im.height * im.spectrum

NewImg(w, h, s, v) ==
    [width |-> w, height |-> h, spectrum |-> s, overrun |-> FALSE,
     data |-> [o \in 0 .. (w * h * s - 1) |-> v]]

NoImg == NewImg(0, 0, 0, FALSE)

\* img(x, y, 0, c): offset x + y*width + c*width*height, not range-checked
Offset(im, x, y, c) == x + y * im.width + c * im.width * im.height

OffX(im, o) == o % im.width
OffY(im, o) == (o % (im.width * im.height)) \div im.width

\* the not-inverted Y axis of the commented-out loop (lines 62-64)
FlipIndex_NotInverted(im, x, y) == im.width * y + x

\* the cell a fill loop reads for pixel (x, y): the Y axis is flipped
FlipIndex(im, x, y) == im.width * (im.height - y - 1) + x

\* cimg_forXY(img,x,y) { img(x,y) = F(grid[flipped index]); }: channel 0 only
FillXY(im, g, F(_)) ==
    [im EXCEPT !.data =
        [o \in DOMAIN im.data |->
            IF o < im.width * im.height
            THEN F(CellAt(g, FlipIndex(im, OffX(im, o), OffY(im, o))))
            ELSE im.data[o]]]

\* cimg_forXYZC(img,x,y,z,c) { img(x,y,z,c) = F(grid[flipped index]); }
FillXYZC(im, g, F(_)) ==
    [im EXCEPT !.data =
        [o \in DOMAIN im.data |->
            F(CellAt(g, FlipIndex(im, OffX(im, o), OffY(im, o))))]]

-----------------------------------------------------------------------------
(* The per-cell values the fill loops write *)

FreeBit_NotNegated(c) == isOccupied(c)
FreeBit(c) == ~isOccupied(c)                                  \* plotMap
FreeWhite(c) == IF isOccupied(c) THEN Fin(0) ELSE Fin(2 * White)  \* (!occ)*255
OccupancyLevel(c) == DTimes(getOccupancy(c), White)           \* occupancy*255
ValueLevel(c, max_val) == DTimes(DDiv(getValue(c), max_val), White)

-----------------------------------------------------------------------------
(* Path vertices: img(static_cast<unsigned>(p[0]),                         *)
(*                    img.height() - static_cast<unsigned>(p[1]) - 1, 0, c) *)

\* the vertex placed without the Y flip
VertexOffset_NotFlipped(im, p, c) ==
    IF Trunc(p[2]) < im.height
    THEN Offset(im, Trunc(p[1]), Trunc(p[2]), c)
    ELSE Size(im) + Trunc(p[1])

\* The row is computed in unsigned arithmetic: for a vertex at or above the
\* top of the grid it wraps to 2^32 + height - ty - 1, and the offset is
\* then past the end of every buffer.
VertexOffset(im, p, c) ==
    IF Trunc(p[2]) < im.height
    THEN Offset(im, Trunc(p[1]), im.height - Trunc(p[2]) - 1, c)
    ELSE Size(im) + Trunc(p[1])

\* img(...) = v.  A write past the end of the buffer is undefined behaviour;
\* the buffer keeps its contents and the overrun is recorded.
Put(im, p, c, v) ==
    IF VertexOffset(im, p, c) < Size(im)
    THEN [im EXCEPT !.data[VertexOffset(im, p, c)] = v]
    ELSE [im EXCEPT !.overrun = TRUE]

\* for (i = 0; i < path.size(); ++i) { img(.., c1) = 0; img(.., c2) = 0; }
RECURSIVE DrawPath(_, _, _, _)
DrawPath(im, path, c1, c2) ==
    IF path = <<>> THEN im
    ELSE DrawPath(Put(Put(im, Head(path), c1, Fin(0)), Head(path), c2, Fin(0)),
                  Tail(path), c1, c2)

\* every path drawn on the channels of the single-path overlay
RECURSIVE DrawPaths_OneColour(_, _, _)
DrawPaths_OneColour(im, ps, j) ==
    IF j = Len(ps) THEN im
    ELSE DrawPaths_OneColour(DrawPath(im, ps[j + 1], 1, 2), ps, j + 1)

\* for (j = 0; j < paths.size(); ++j) draw paths[j] on channels j and j+1
RECURSIVE DrawPaths(_, _, _)
DrawPaths(im, ps, j) ==
    IF j = Len(ps) THEN im
    ELSE DrawPaths(DrawPath(im, ps[j + 1], j, j + 1), ps, j + 1)

\* the path marked with the lowest intensity instead of the highest
RECURSIVE MarkPath_Dark(_, _)
MarkPath_Dark(im, path) ==
    IF path = <<>> THEN im
    ELSE MarkPath_Dark(Put(im, Head(path), 0, Fin(0)), Tail(path))

\* for (i = 0; i < path.size(); ++i) img(x, y) = 255;
RECURSIVE MarkPath(_, _)
MarkPath(im, path) ==
    IF path = <<>> THEN im
    ELSE MarkPath(Put(im, Head(path), 0, Fin(2 * White)), Tail(path))

-----------------------------------------------------------------------------
(* img.map(CImg<double>::jet_LUT256()): each scalar indexes the 256-entry   *)
(* table and becomes an RGB triple                                          *)

Abs(n) == IF n < 0 THEN 0 - n ELSE n
Clamp(n) == IF n < 0 THEN 0 ELSE IF n > White THEN White ELSE n

\* blue -> cyan -> green -> yellow -> red over the indices 0..255
JetChannel(i, c) == Clamp((3 * White - Abs(8 * i - (6 - 2 * c) * White)) \div 2)
Jet(i) == <<JetChannel(i, 0), JetChannel(i, 1), JetChannel(i, 2)>>

\* the index of a scalar; converting a non-finite double to an integer is
\* undefined and yields the entry u
LutIndex(a, u) == IF IsFinite(a) /\ Trunc(a) <= White THEN Trunc(a) ELSE u

\* the entries an undefined conversion may yield in a call that maps im
UndefinedIndex(im) ==
    IF \E o \in DOMAIN im.data : ~IsFinite(im.data[o]) THEN {0, White} ELSE {0}

MapJet(im, u) ==
    [width |-> im.width, height |-> im.height, spectrum |-> 3,
     overrun |-> im.overrun,
     data |-> [o \in 0 .. (3 * im.width * im.height - 1) |->
                 Fin(2 * Jet(LutIndex(im.data[o % (im.width * im.height)], u))
                                [(o \div (im.width * im.height)) + 1])]]

-----------------------------------------------------------------------------
(* The buffers each entry point builds *)

MapImage(g) ==                                   \* plotMap, lines 58-61
    FillXY(NewImg(getDimSizes(g)[1], getDimSizes(g)[2], 1, FALSE), g, FreeBit)

OccupancyImage(g) ==                             \* plotOccupancyMap, 72-75
    FillXY(NewImg(getDimSizes(g)[1], getDimSizes(g)[2], 1, Fin(0)), g, OccupancyLevel)

ValuesImage(g) ==                                \* plotArrivalTimes, 97-101
    LET max_val == getMaxValue(g)
        Level(c) == ValueLevel(c, max_val)
    IN  FillXY(NewImg(getDimSizes(g)[1], getDimSizes(g)[2], 1, Fin(0)), g, Level)

MapBase(g) ==                                    \* plotMapPath(s), 110-114
    FillXYZC(NewImg(getDimSizes(g)[1], getDimSizes(g)[2], 3, Fin(0)), g, FreeWhite)

OccupancyBase(g) ==                              \* plotOccupancyPath, 144-147
    FillXYZC(NewImg(getDimSizes(g)[1], getDimSizes(g)[2], 3, Fin(0)), g, OccupancyLevel)

-----------------------------------------------------------------------------
(* The calls.  A call whose path loop wrote past the end of its buffer has *)
(* undefined behaviour: the process dies there, or it goes on to display.  *)

\* the channels plotMapPath and plotOccupancyPath zero (lines 118-119, 151-152)
PathChannels_Low == <<0, 1>>
PathChannels == <<1, 2>>

\* name taken by reference: the caller's string grows with every call
Call_NameByReference(o, a, b, d, final, suffix) ==
    /\ ~crashed
    /\ op' = o
    /\ args' = a
    /\ base' = b
    /\ drawn' = d
    /\ img' = final
    /\ name' = name \o suffix
    /\ title' = name \o suffix
    /\ displayed' = TRUE
    /\ crashed' = FALSE
    /\ UNCHANGED <<grid, paths>>

Call(o, a, b, d, final, suffix) ==
    /\ ~crashed
    /\ op' = o
    /\ args' = a
    /\ base' = b
    /\ drawn' = d
    /\ \/ /\ img' = final
          /\ title' = name \o suffix
          /\ displayed' = TRUE
          /\ crashed' = FALSE
       \/ /\ d.overrun
          /\ img' = d
          /\ title' = name
          /\ displayed' = FALSE
          /\ crashed' = TRUE
    /\ UNCHANGED <<grid, paths, name>>

plotMap ==
    LET im == MapImage(grid)
    IN  Call("plotMap", <<>>, im, im, im, " Map")

plotOccupancyMap ==
    LET im == OccupancyImage(grid)
    IN  Call("plotOccupancyMap", <<>>, im, im, im, " Occupancy Map")

plotArrivalTimes ==
    LET im == ValuesImage(grid)
    IN  \E u \in UndefinedIndex(im) :
            Call("plotArrivalTimes", <<>>, im, im, MapJet(im, u), " Grid values")

plotMapPath ==
    \E j \in DOMAIN paths :
        LET b == MapBase(grid)
            d == DrawPath(b, paths[j], PathChannels[1], PathChannels[2])
        IN  Call("plotMapPath", <<paths[j]>>, b, d, d, " Map and Path")

plotOccupancyPath ==
    \E j \in DOMAIN paths :
        LET b == OccupancyBase(grid)
            d == DrawPath(b, paths[j], PathChannels[1], PathChannels[2])
        IN  Call("plotOccupancyPath", <<paths[j]>>, b, d, d, " Map and Path")

plotMapPaths ==
    LET b == MapBase(grid)
        d == DrawPaths(b, paths, 0)
    IN  Call("plotMapPaths", paths, b, d, d, " Map and Paths")

plotArrivalTimesPath ==
    \E j \in DOMAIN paths :
        LET b == ValuesImage(grid)
            d == MarkPath(b, paths[j])
        IN  \E u \in UndefinedIndex(d) :
                Call("plotArrivalTimesPath", <<paths[j]>>, b, d, MapJet(d, u),
                     " Values and Path")

Next ==
    \/ plotMap
    \/ plotOccupancyMap
    \/ plotArrivalTimes
    \/ plotMapPath
    \/ plotOccupancyPath
    \/ plotMapPaths
    \/ plotArrivalTimesPath

-----------------------------------------------------------------------------
(* The callers' inputs.  Spec draws them from the inputs the plotter is    *)
(* documented for: a 2D grid with a positive finite maximum value, at most *)
(* two paths ("Only 2 paths are accepted"), every vertex inside the grid.  *)
(* Either the grid is arbitrary and the one path is empty, or the path set *)
(* is arbitrary and at most one cell of the grid differs from a free cell. *)

MaxPaths == 2

Names == {"", "FMM"}

\* free, full velocity, arrival time 1.0
FreeCell == [occupied |-> FALSE, occupancy |-> Fin(2), value |-> Fin(2)]

\* an obstacle; a cell of velocity 0.5; a cell of arrival time 2.0
OddCells ==
    {[FreeCell EXCEPT !.occupied = TRUE],
     [FreeCell EXCEPT !.occupancy = Fin(1)],
     [FreeCell EXCEPT !.value = Fin(4)]}

Dims == (1 .. MaxW) \X (1 .. MaxH)

GridsOver(cellSets) ==
    UNION {[w : {d[1]}, h : {d[2]}, skipInf : {TRUE}, cells : cellSets[d]] : d \in Dims}

\* every cell free or odd in the same way
AnyGrids ==
    UNION {GridsOver([d \in Dims |-> [0 .. (d[1] * d[2] - 1) -> {FreeCell, c}]]) :
            c \in OddCells}

\* a cell that differs from a free cell in every field the plotter reads
MarkedCell == [occupied |-> TRUE, occupancy |-> Fin(1), value |-> Fin(4)]

\* at most one cell not free, in row y = 0 of the grid
PlainGrids ==
    GridsOver([d \in Dims |->
        {[i \in 0 .. (d[1] * d[2] - 1) |-> IF i = k THEN c ELSE FreeCell] :
            k \in 0 .. (d[1] - 1), c \in {FreeCell, MarkedCell}}])

\* one sample double per cell index: 0.0, 1.5, 2.0, 3.5, ...
Coord(k) == Fin(2 * k + (k % 2))

Vertices(nx, ny) == {<<Coord(x), Coord(y)>> : x \in 0 .. (nx - 1), y \in 0 .. (ny - 1)}

PathsOver(V) == UNION {[1 .. l -> V] : l \in 0 .. MaxVertices}

RECURSIVE TotalLen(_)
TotalLen(ps) == IF ps = <<>> THEN 0 ELSE Len(Head(ps)) + TotalLen(Tail(ps))

\* up to n paths over the vertices V, MaxVertices vertices in all
PathSets(V, n) ==
    {ps \in UNION {[1 .. k -> PathsOver(V)] : k \in 0 .. n} : TotalLen(ps) <= MaxVertices}

Idle ==
    /\ op = "none"
    /\ args = <<>>
    /\ base = NoImg
    /\ drawn = NoImg
    /\ img = NoImg
    /\ title = ""
    /\ displayed = FALSE
    /\ crashed = FALSE

Init ==
    /\ \/ /\ grid \in AnyGrids
          /\ paths = << <<>> >>
          /\ name \in Names
       \/ /\ grid \in PlainGrids
          /\ paths \in PathSets(Vertices(grid.w, grid.h), MaxPaths)
          /\ name = ""
    /\ Idle

Spec == Init /\ [][Next]_vars

-----------------------------------------------------------------------------
(* The same calls on inputs nothing in the plotter checks: a third path,   *)
(* vertices one cell outside the grid, grids with an unvisited (infinite)  *)
(* cell or without a positive value, with either reading of the maximum.   *)

Channels == 3

\* an unvisited cell and a cell of arrival time 0
UncheckedCells == {[FreeCell EXCEPT !.value = Infinity], [FreeCell EXCEPT !.value = Fin(0)]}

\* at most one cell not free
UncheckedGrids ==
    UNION {[w : {d[1]}, h : {d[2]}, skipInf : BOOLEAN,
            cells : {[i \in 0 .. (d[1] * d[2] - 1) |-> IF i = k THEN c ELSE FreeCell] :
                        k \in 0 .. (d[1] * d[2] - 1),
                        c \in UncheckedCells \cup {FreeCell}}] : d \in Dims}

InitUnchecked ==
    /\ grid \in UncheckedGrids
    /\ paths \in PathSets(Vertices(grid.w + 1, grid.h + 1), Channels)
    /\ name = ""
    /\ Idle

SpecUnchecked == InitUnchecked /\ [][Next]_vars

-----------------------------------------------------------------------------
(* What the statements below read off a state *)

Called == op # "none" /\ ~crashed

\* the cell at grid coordinates (x, y): linear index width*y + x
CellXY(x, y) == grid.cells[grid.w * y + x]

Xs == 0 .. (grid.w - 1)
Ys == 0 .. (grid.h - 1)

\* the pixel of buffer im at column col, row row, channel c
Pixel(im, col, row, c) == im.data[col + row * grid.w + c * grid.w * grid.h]

\* the row of the raster that shows grid row y
RowOf(y) == grid.h - y - 1

\* the largest value of the grid
MaxValue == CHOOSE m \in {CellXY(x, y).value : x \in Xs, y \in Ys} :
                \A x \in Xs, y \in Ys : CellXY(x, y).value <= m

\* e is v / m * 255, all three counted in halves
IsScaled(e, v, m) == e * m = 2 * 255 * v

\* what each mode shows for a cell
Shows(o, e, cell) ==
    CASE o = "plotMap" -> e = ~cell.occupied
      [] o \in {"plotMapPath", "plotMapPaths"} ->
            e = IF cell.occupied THEN 0 ELSE 2 * 255
      [] o \in {"plotOccupancyMap", "plotOccupancyPath"} -> e = 255 * cell.occupancy
      [] o \in {"plotArrivalTimes", "plotArrivalTimesPath"} ->
            IsScaled(e, cell.value, MaxValue)

ChannelsOf(o) == IF o \in {"plotMapPath", "plotOccupancyPath", "plotMapPaths"} THEN 3 ELSE 1

\* the vertices of the paths of the last call, as raster positions
VertexPixels(ps) ==
    {<<p[1] \div 2, RowOf(p[2] \div 2)>> : p \in UNION {{q[i] : i \in DOMAIN q} : q \in {ps[j] : j \in DOMAIN ps}}}

\* the grid cell shown at raster position px
CellUnder(px) == CellXY(px[1], grid.h - px[2] - 1)

\* the raster position of vertex p
PixelOfVertex(p) == <<p[1] \div 2, RowOf(p[2] \div 2)>>

Raster == Xs \X Ys

-----------------------------------------------------------------------------
\* C1: for every entry point, the buffer the fill loop leaves has the grid's
\* width and height, and for every cell (x, y) the pixel at column x, row
\* height - y - 1 holds, in every channel, what the mode shows for the cell
\* at linear index width*y + x; every pixel is the image of exactly one cell.
FlipExact ==
    Called =>
        LET im == IF op \in {"plotMap", "plotOccupancyMap"} THEN img ELSE base
        IN  /\ im.width = grid.w /\ im.height = grid.h
            /\ im.spectrum = ChannelsOf(op)
            /\ \A x \in Xs, y \in Ys, c \in 0 .. (ChannelsOf(op) - 1) :
                    Shows(op, Pixel(im, x, RowOf(y), c), CellXY(x, y))
            /\ \A px \in Raster :
                    Cardinality({xy \in Raster : <<xy[1], RowOf(xy[2])>> = px}) = 1

FlipExactWitness ==
    /\ Called /\ op = "plotArrivalTimes"
    /\ grid.w >= 2 /\ grid.h >= 2
    /\ CellXY(0, 0).value # CellXY(0, 1).value
    /\ Pixel(base, 0, 0, 0) # Pixel(base, 0, 1, 0)

\* C2: after plotMap every pixel is bright (true) exactly when its cell is
\* not occupied; a grid without occupied cells gives an all-bright buffer,
\* and a grid whose only occupied cell is (x0, y0) gives exactly one dark
\* pixel, at (x0, height - y0 - 1).
OccupancyInversion ==
    (Called /\ op = "plotMap") =>
        LET dark == {px \in Raster : Pixel(img, px[1], px[2], 0) = FALSE}
            occupied == {xy \in Raster : CellXY(xy[1], xy[2]).occupied}
        IN  /\ displayed
            /\ \A px \in Raster : Pixel(img, px[1], px[2], 0) \in BOOLEAN
            /\ \A xy \in Raster :
                    Pixel(img, xy[1], RowOf(xy[2]), 0) = TRUE <=> xy \notin occupied
            /\ occupied = {} => dark = {}
            /\ \A xy \in Raster : occupied = {xy} => dark = {<<xy[1], RowOf(xy[2])>>}
            /\ (grid.w = 3 /\ grid.h = 3 /\ occupied = {<<1, 1>>}) => dark = {<<1, 1>>}

OccupancyInversionWitness ==
    /\ Called /\ op = "plotMap"
    /\ grid.w >= 2 /\ grid.h >= 2
    /\ {xy \in Raster : CellXY(xy[1], xy[2]).occupied} = {<<1, 1>>}
    /\ Pixel(img, 1, grid.h - 2, 0) = FALSE

OverlayFrame ==
    (Called /\ op \in {"plotMapPath", "plotOccupancyPath", "plotMapPaths"}) =>
        LET changed == {px \in Raster :
                          \E c \in 0 .. 2 : Pixel(img, px[1], px[2], c) # Pixel(base, px[1], px[2], c)}
        IN  /\ changed \subseteq VertexPixels(args)
            /\ (\A xy \in Raster : CellXY(xy[1], xy[2]) = FreeCell)
                    => changed = VertexPixels(args)

OverlayFrameWitness ==
    /\ Called /\ op = "plotMapPath"
    /\ grid.w >= 2 /\ grid.h >= 2
    /\ args[1] # <<>>
    /\ PixelOfVertex(args[1][1]) = <<1, 0>>
    /\ Pixel(img, 1, 0, 1) # Pixel(base, 1, 0, 1)
    /\ Pixel(img, 1, 1, 1) = Pixel(base, 1, 1, 1)

\* C5: after plotArrivalTimes on a grid whose maximum value is not zero,
\* every pixel of the scalar buffer lies in [0, 255] and every cell whose
\* value equals the maximum shows 255.
ScalarRange ==
    (Called /\ op = "plotArrivalTimes" /\ getMaxValue(grid) # Fin(0)) =>
        \A xy \in Raster :
            LET e == Pixel(base, xy[1], RowOf(xy[2]), 0)
            IN  /\ DLe(Fin(0), e) /\ DLe(e, Fin(2 * 255))
                /\ DEq(CellXY(xy[1], xy[2]).value, getMaxValue(grid))
                        => DEq(e, Fin(2 * 255))

\* C6: plotMapPaths on three paths ends without displaying and without
\* having written a path pixel.
ThreePathsRejected ==
    (op = "plotMapPaths" /\ Len(args) = 3) =>
        /\ ~displayed
        /\ drawn.data = base.data

\* a vertex of the last call outside the grid after truncation, or a zero
\* maximum in a scalar-field mode
PreconditionViolated ==
    \/ /\ op \in {"plotArrivalTimes", "plotArrivalTimesPath"}
       /\ getMaxValue(grid) = Fin(0)
    \/ \E j \in DOMAIN args : \E i \in DOMAIN args[j] :
            args[j][i][1] \div 2 >= grid.w \/ args[j][i][2] \div 2 >= grid.h

\* C7: a call that meets a precondition violation does not reach the display.
FailFast == (op # "none" /\ PreconditionViolated) => ~displayed

\* C8: no call changes the grid, the paths or the caller's name, and a call
\* that repeats the previous call (same entry point, same paths, same grid)
\* hands the display the same buffer under the same title.
RenderTwice ==
    [][/\ grid' = grid /\ paths' = paths /\ name' = name
       /\ (op' = op /\ args' = args /\ displayed /\ displayed')
            => (img' = img /\ title' = title)]_vars

RenderTwiceWitness ==
    /\ Called /\ displayed
    /\ op = "plotMapPaths"
    /\ args # <<>> /\ args[1] # <<>>
    /\ img # base
    /\ name = ""
    /\ title = " Map and Paths"

\* C9 as stated: plotMapPath(grid, p) leaves the buffer plotMapPaths leaves
\* for the path set holding p as path 0.
SinglePathIsPathZero ==
    (Called /\ op = "plotMapPath") => img = DrawPaths(MapBase(grid), args, 0)

\* C9 as amended: plotMapPath(grid, p) leaves the buffer plotMapPaths leaves
\* for the path set holding an empty path 0 and p as path 1; against the set
\* holding p as path 0 the two buffers agree once channels 0 and 2 of one of
\* them are exchanged.
SinglePathIsPathOne ==
    (Called /\ op = "plotMapPath") =>
        /\ img = DrawPaths(MapBase(grid), << <<>> >> \o args, 0)
        /\ \A px \in Raster, c \in 0 .. 2 :
                Pixel(img, px[1], px[2], c)
                    = Pixel(DrawPaths(MapBase(grid), args, 0), px[1], px[2], 2 - c)

SinglePathIsPathOneWitness ==
    /\ Called /\ op = "plotMapPath" /\ displayed
    /\ args[1] # <<>>
    /\ ~CellUnder(PixelOfVertex(args[1][1])).occupied
    /\ Pixel(img, PixelOfVertex(args[1][1])[1], PixelOfVertex(args[1][1])[2], 0) = 2 * 255
    /\ Pixel(img, PixelOfVertex(args[1][1])[1], PixelOfVertex(args[1][1])[2], 2) = 0

\* C10: after plotArrivalTimesPath the 1-channel buffer holds 255 at the
\* pixel of every vertex and value/maxValue*255 at every other pixel, and in
\* the colour-mapped buffer a vertex pixel has the colour of every other
\* pixel whose cell holds the maximum value.
PathOnScalar ==
    (Called /\ op = "plotArrivalTimesPath") =>
        /\ drawn.spectrum = 1 /\ img.spectrum = 3
        /\ \A px \in Raster :
            IF px \in VertexPixels(args)
            THEN Pixel(drawn, px[1], px[2], 0) = 2 * 255
            ELSE /\ Pixel(drawn, px[1], px[2], 0) = Pixel(base, px[1], px[2], 0)
                 /\ IsScaled(Pixel(drawn, px[1], px[2], 0), CellUnder(px).value, MaxValue)
        /\ \A px \in VertexPixels(args), qx \in Raster \ VertexPixels(args) :
            CellUnder(qx).value = MaxValue
                => \A c \in 0 .. 2 : Pixel(img, px[1], px[2], c) = Pixel(img, qx[1], qx[2], c)

PathOnScalarWitness ==
    /\ Called /\ op = "plotArrivalTimesPath" /\ displayed
    /\ \E px \in VertexPixels(args), qx \in Raster \ VertexPixels(args) :
        /\ CellUnder(px).value # MaxValue
        /\ CellUnder(qx).value = MaxValue
        /\ Pixel(drawn, px[1], px[2], 0) # Pixel(base, px[1], px[2], 0)

====
